---- MODULE Spec2Model ----
(***************************************************************************)
(* Model of MacMCP/replace_unsafe_calls.py: a batch tool that enumerates   *)
(* the *.swift files under a root, matches one regular expression per      *)
(* file, classifies each matched attribute and prints a report.            *)
(*                                                                         *)
(* Text is modelled as a sequence of tokens.  Every token is a run of      *)
(* characters that the regular expression treats alike (an identifier, a   *)
(* punctuation character, one whitespace character), so a character class  *)
(* of the expression accepts or rejects a token as a whole.  Offsets       *)
(* (start, end, the context window) count tokens.  Join renders a token    *)
(* sequence as the string Python would hold.                               *)
(***************************************************************************)
EXTENDS Integers, Sequences, FiniteSets, TLC

(***************************************************************************)
(* Bounds                                                                  *)
(***************************************************************************)
MaxFiles == 2

(***************************************************************************)
(* Tokens and text helpers                                                 *)
(***************************************************************************)
KW == "AXUIElementCopyAttributeValue"
LP == "("
RP == ")"
CM == ","
QT == "\""
SP == " "
NL == "\n"
AMP == "&"
AS == "as"
CFS == "CFString"

\* the characters matched by \s and removed by str.strip()
WS == {SP, NL}

RECURSIVE Join(_)
Join(toks) == IF toks = <<>> THEN "" ELSE Head(toks) \o Join(Tail(toks))

Max(a, b) == IF a >= b THEN a ELSE b
Min(a, b) == IF a <= b THEN a ELSE b

\* Python slice s[a:b] for 0 <= a, on 0-based offsets
Slice(s, a, b) == SubSeq(s, a + 1, Min(b, Len(s)))

RECURSIVE LStrip(_)
LStrip(s) == IF s # <<>> /\ Head(s) \in WS THEN LStrip(Tail(s)) ELSE s

RECURSIVE RStrip(_)
RStrip(s) ==
    IF s # <<>> /\ s[Len(s)] \in WS THEN RStrip(SubSeq(s, 1, Len(s) - 1)) ELSE s

\* a plausible slip: the captured text used untrimmed
strip_nothing(s) == s

\* str.strip()
strip(s) == RStrip(LStrip(s))

(***************************************************************************)
(* The regular expression of analyze_patterns, item by item.  An item      *)
(* consumes between min and max tokens (max = -1: unbounded, greedy) of    *)
(* its class; neg marks a negated class; group is the capture group the    *)
(* item forms (0: none).                                                   *)
(***************************************************************************)
Lit(t) == [min |-> 1, max |-> 1, neg |-> FALSE, set |-> {t}, group |-> 0]
Star(S) == [min |-> 0, max |-> -1, neg |-> FALSE, set |-> S, group |-> 0]
PlusNot(S, g) == [min |-> 1, max |-> -1, neg |-> TRUE, set |-> S, group |-> g]

\* a plausible slip: the attribute argument accepted as any text up to the
\* next comma instead of a quoted literal with its cast
pattern_any_second_arg ==
    << Lit(KW), Lit(LP), PlusNot({CM}, 1), Lit(CM), Star(WS),
       PlusNot({CM}, 2), Lit(CM), Star(WS), Lit(AMP), PlusNot({RP}, 3), Lit(RP) >>

pattern ==
    << Lit(KW), Lit(LP), PlusNot({CM}, 1), Lit(CM), Star(WS),
       Lit(QT), PlusNot({QT}, 2), Lit(QT), Star(WS), Lit(AS), Star(WS),
       Lit(CFS), Lit(CM), Star(WS), Lit(AMP), PlusNot({RP}, 3), Lit(RP) >>

InClass(item, tok) == (tok \in item.set) # item.neg

\* longest run of tokens of the item's class from 0-based offset p
RECURSIVE MaxRun(_, _, _, _)
MaxRun(text, p, item, n) ==
    IF /\ p + n < Len(text)
       /\ (item.max = -1 \/ n < item.max)
       /\ InClass(item, text[p + n + 1])
    THEN MaxRun(text, p, item, n + 1)
    ELSE n

NoMatch == [ok |-> FALSE, ends |-> <<>>]

\* the element of a one-element set: binds a computed value to a name, so
\* that it is computed once however often it is used
Only(S) == CHOOSE x \in S : TRUE

\* Backtracking match of items k.. at offset p: the end offset of every
\* item.  The re module tries the counts of a greedy item from the longest
\* down and keeps the first with which the rest of the expression matches,
\* that is the largest count with which it matches.
RECURSIVE MatchItems(_, _, _)
MatchItems(text, p, k) ==
    IF k > Len(pattern) THEN [ok |-> TRUE, ends |-> <<>>]
    ELSE Only({ IF good = {} THEN NoMatch
                ELSE Only({ [ok |-> TRUE, ends |-> <<p + t[1]>> \o t[2].ends] :
                              t \in {t \in good : \A u \in good : u[1] <= t[1]} }) :
                  good \in { { t \in { <<n, MatchItems(text, p + n, k + 1)>> :
                                         n \in pattern[k].min..MaxRun(text, p, pattern[k], 0) } :
                               t[2].ok } } })

MatchEnd(m) == m.ends[Len(m.ends)]

\* re.finditer: the leftmost match at or after offset p, then the matches
\* found scanning on from its end
RECURSIVE finditer(_, _)
finditer(text, p) ==
    Only({ IF found = {} THEN <<>>
           ELSE Only({ <<[start |-> t[1], ends |-> t[2].ends]>>
                           \o finditer(text, MatchEnd(t[2])) :
                         t \in {t \in found : \A u \in found : t[1] <= u[1]} }) :
             found \in { { t \in { <<q, MatchItems(text, q, 1)>> : q \in p..(Len(text) - 1) } :
                            t[2].ok } } })

\* match.group(g): the text consumed by the item forming group g
GroupItem(g) == CHOOSE k \in 1..Len(pattern) : pattern[k].group = g
group(text, m, g) ==
    LET k == GroupItem(g) IN Slice(text, m.ends[k - 1], m.ends[k])

CONTEXT_RADIUS == 100
SNIPPET_LEN == 100

\* the record appended for one match (lines 28-45)
MatchRecord(text, m) ==
    [element    |-> Join(strip(group(text, m, 1))),
     attribute  |-> Join(group(text, m, 2)),
     var_ref    |-> Join(strip(group(text, m, 3))),
     full_match |-> Join(Slice(text, m.start, MatchEnd(m))),
     context    |-> Slice(text, Max(0, m.start - CONTEXT_RADIUS),
                          Min(Len(text), MatchEnd(m) + CONTEXT_RADIUS)),
     start      |-> m.start,
     end        |-> MatchEnd(m)]

\* lines 21-47 of analyze_patterns, applied to the text read from the file
analyze_content(text) ==
    Only({ [i \in 1..Len(ms) |-> MatchRecord(text, ms[i])] : ms \in {finditer(text, 0)} })

(***************************************************************************)
(* suggest_replacement                                                     *)
(***************************************************************************)
ARRAY_ATTRS == {"AXChildren", "AXWindows", "AXMenus", "AXTabs"}
STRING_ATTRS == {"AXRole", "AXTitle", "AXDescription", "AXIdentifier", "AXValue"}
BOOL_ATTRS == {"AXEnabled", "AXFocused", "AXSelected", "AXHidden", "AXVisible"}
RECT_ATTRS == {"AXFrame"}
POINT_ATTRS == {"AXPosition"}
SIZE_ATTRS == {"AXSize"}

Wrapper(fn, element, attribute) ==
    "SafeAttributeAccess." \o fn \o "(" \o element \o ", attribute: \""
        \o attribute \o "\")"

\* a plausible slip: the rectangle and size branches exchanged
suggest_replacement_swapped(info) ==
    LET attribute == info.attribute
        element == info.element
    IN IF attribute \in ARRAY_ATTRS THEN Wrapper("getArrayAttribute", element, attribute)
       ELSE IF attribute \in STRING_ATTRS THEN Wrapper("getStringAttribute", element, attribute)
       ELSE IF attribute \in BOOL_ATTRS THEN Wrapper("getBoolAttribute", element, attribute)
       ELSE IF attribute \in RECT_ATTRS THEN Wrapper("getSizeAttribute", element, attribute)
       ELSE IF attribute \in POINT_ATTRS THEN Wrapper("getPointAttribute", element, attribute)
       ELSE IF attribute \in SIZE_ATTRS THEN Wrapper("getRectAttribute", element, attribute)
       ELSE Wrapper("getAttribute", element, attribute)

suggest_replacement(info) ==
    LET attribute == info.attribute
        element == info.element
    IN IF attribute \in ARRAY_ATTRS THEN Wrapper("getArrayAttribute", element, attribute)
       ELSE IF attribute \in STRING_ATTRS THEN Wrapper("getStringAttribute", element, attribute)
       ELSE IF attribute \in BOOL_ATTRS THEN Wrapper("getBoolAttribute", element, attribute)
       ELSE IF attribute \in RECT_ATTRS THEN Wrapper("getRectAttribute", element, attribute)
       ELSE IF attribute \in POINT_ATTRS THEN Wrapper("getPointAttribute", element, attribute)
       ELSE IF attribute \in SIZE_ATTRS THEN Wrapper("getSizeAttribute", element, attribute)
       ELSE Wrapper("getAttribute", element, attribute)

(***************************************************************************)
(* The environment: command line, directories and files                    *)
(***************************************************************************)
\* the directories that exist; every other path names nothing
DIRS == {"Sources"}
ROOT_ARGS == {"Sources", "Missing", "Gone"}

FileIds == 1..MaxFiles

\* one call of the three-argument shape, written as in the documented scenarios
CallText(target, attr, var) ==
    <<KW, LP>> \o target \o <<CM, SP, QT>> \o attr \o <<QT, SP, AS, SP, CFS, CM, SP, AMP>>
        \o var \o <<RP>>

TEXT_PLAIN == <<"import", SP, "Foundation", NL>>
TEXT_TITLE == CallText(<<"element">>, <<"AXTitle">>, <<"titleRef">>)
TEXT_FRAME == CallText(<<"button">>, <<"AXFrame">>, <<"frameRef">>)
TEXT_PADDED == CallText(<<SP, "window", SP>>, <<"AXCustomFoo">>, <<SP, "ref", NL>>)
TEXT_VARIABLE ==
    <<KW, LP, "element", CM, SP, "attrName", SP, AS, SP, CFS, CM, SP, AMP, "ref", RP>>
TEXT_TWO ==
    <<"let", SP, "e", SP, "=", SP>>
        \o CallText(<<"app">>, <<"AXChildren">>, <<"kids">>) \o <<NL, SP>>
        \o <<KW, LP, "app", CM, QT, "AXSize", QT, AS, CFS, CM, AMP, "size", RP, NL>>

FILE_TEXTS ==
    {TEXT_PLAIN, TEXT_TITLE, TEXT_FRAME, TEXT_PADDED, TEXT_VARIABLE, TEXT_TWO}

\* fault: "open" - open() raises (permission, a directory named *.swift);
\*        "read" - read() raises (undecodable bytes)
Absent == [kind |-> "absent", suffix |-> "", fault |-> "none", content |-> <<>>]
FileStates ==
    {Absent}
      \cup {[kind |-> "file", suffix |-> ".txt", fault |-> "none", content |-> TEXT_TITLE]}
      \cup {[kind |-> "file", suffix |-> ".swift", fault |-> x, content |-> <<>>] :
               x \in {"open", "read"}}
      \cup {[kind |-> "file", suffix |-> ".swift", fault |-> "none", content |-> t] :
               t \in FILE_TEXTS}

FileName(fsys, f) == "File" \o ToString(f) \o fsys[f].suffix

(***************************************************************************)
(* State                                                                   *)
(***************************************************************************)
VARIABLES
    argv,           \* sys.argv
    fs,             \* the files under the root: FileIds -> FileStates
    pc,             \* position in main / analyze_patterns
    pass,           \* caller of analyze_patterns: "report" (line 92), "summary" (line 113)
    source_dir,     \* Path(sys.argv[1])
    swift_files,    \* list(source_dir.rglob("*.swift")), as file ids
    idx,            \* position of the running for loop in swift_files
    total_matches,
    handle,         \* the file open in analyze_patterns, 0 if none
    content,        \* analyze_patterns: the text read
    matches,        \* the list analyze_patterns returned
    affected,       \* the list built by the comprehension of line 113
    stdout,         \* the lines printed
    exit_code,      \* <<>> while running, <<c>> once the process has exited
    exception,      \* the uncaught exception that ended the run, "" if none
    ops_log,        \* every file-system operation and match made, in order
    match_info,     \* argument of a direct call of suggest_replacement
    suggestion      \* its result

vars ==
    <<argv, fs, pc, pass, source_dir, swift_files, idx, total_matches, handle,
      content, matches, affected, stdout, exit_code, exception, ops_log,
      match_info, suggestion>>

NoRecord == [element |-> "", attribute |-> ""]

Line(kind, n, text) == [kind |-> kind, n |-> n, text |-> text]
Blank == Line("blank", 0, "")
Op(op, f) == [op |-> op, file |-> f]

exists(path) == path \in DIRS

\* Path.rglob("*.swift"): the files under the root whose name ends in .swift
rglob(fsys) == {f \in FileIds : fsys[f].kind = "file" /\ fsys[f].suffix = ".swift"}

\* every order in which the walk may yield the files
Orders(S) ==
    {s \in [1..Cardinality(S) -> S] : \A i, j \in 1..Cardinality(S) : s[i] = s[j] => i = j}

\* a plausible slip: the file opened for writing, which truncates it
OPEN_MODE_W == "w"

OPEN_MODE == "r"

\* the effect of open(file_path, mode) on the file system
open(fsys, f, mode) ==
    IF mode = "w" THEN [fsys EXCEPT ![f].content = <<>>] ELSE fsys

Init ==
    /\ argv \in {<<"replace_unsafe_calls.py">>}
                \cup {<<"replace_unsafe_calls.py", r>> : r \in ROOT_ARGS}
                \cup {<<"replace_unsafe_calls.py", r, "extra">> : r \in ROOT_ARGS}
    /\ fs \in IF Len(argv) >= 2 /\ exists(argv[2])
             THEN [FileIds -> FileStates]
             ELSE {[f \in FileIds |-> Absent]}
    /\ pc = "main"
    /\ pass = "report"
    /\ source_dir = ""
    /\ swift_files = <<>>
    /\ idx = 1
    /\ total_matches = 0
    /\ handle = 0
    /\ content = <<>>
    /\ matches = <<>>
    /\ affected = <<>>
    /\ stdout = <<>>
    /\ exit_code = <<>>
    /\ exception = ""
    /\ ops_log = <<>>
    /\ match_info = NoRecord
    /\ suggestion = ""

(***************************************************************************)
(* Report text                                                             *)
(***************************************************************************)
USAGE == "Usage: python3 replace_unsafe_calls.py <source_directory>"

\* lines 99-107: what the inner loop prints for the i-th match
EntryLines(i, match) ==
    << Blank,
       Line("index", i, ToString(i) \o ". Line area around unsafe call:"),
       Line("attribute", i, "   Attribute: " \o match.attribute),
       Line("element", i, "   Element: " \o match.element),
       Line("current", i, "   Current: " \o match.full_match),
       Line("suggested", i, "   Suggested: " \o suggest_replacement(match)),
       Line("context", i, "   Context: ..."
               \o Join(Slice(strip(match.context), 0, SNIPPET_LEN)) \o "...") >>

\* lines 98-107: for i, match in enumerate(matches, 1)
RECURSIVE PrintMatches(_, _)
PrintMatches(ms, i) ==
    IF i > Len(ms) THEN <<>> ELSE EntryLines(i, ms[i]) \o PrintMatches(ms, i + 1)

\* lines 95-96
BlockHead(fsys, f, ms) ==
    << Blank,
       Line("file", f, "=== " \o FileName(fsys, f) \o " ==="),
       Line("found", Len(ms), "Found " \o ToString(Len(ms)) \o " unsafe calls:") >>

NEXT_STEPS ==
    << Blank,
       Line("steps", 0, "Next steps:"),
       Line("steps", 1, "1. Review suggestions above"),
       Line("steps", 2, "2. Update SafeAttributeAccess.swift if needed"),
       Line("steps", 3, "3. Replace calls systematically, testing as you go"),
       Line("steps", 4,
            "4. Focus on high-impact files first (UIInteractionService, ElementPath)") >>

(***************************************************************************)
(* main                                                                    *)
(***************************************************************************)
\* a plausible slip: only a missing argument rejected
wrong_argc_too_few(av) == Len(av) < 2

\* line 74: len(sys.argv) != 2
wrong_argc(av) == Len(av) # 2

\* lines 74-76
UsageError ==
    /\ pc = "main"
    /\ wrong_argc(argv)
    /\ stdout' = Append(stdout, Line("usage", 0, USAGE))
    /\ exit_code' = <<1>>
    /\ pc' = "exited"
    /\ UNCHANGED <<argv, fs, pass, source_dir, swift_files, idx, total_matches, handle,
                   content, matches, affected, exception, ops_log, match_info, suggestion>>

\* lines 74, 78
ArgsOk ==
    /\ pc = "main"
    /\ ~wrong_argc(argv)
    /\ source_dir' = argv[2]
    /\ pc' = "check_dir"
    /\ UNCHANGED <<argv, fs, pass, swift_files, idx, total_matches, handle, content,
                   matches, affected, stdout, exit_code, exception, ops_log,
                   match_info, suggestion>>

\* lines 80-82
DirectoryNotFound ==
    /\ pc = "check_dir"
    /\ ~exists(source_dir)
    /\ ops_log' = Append(ops_log, Op("exists", 0))
    /\ stdout' = Append(stdout,
                        Line("error", 0, "Directory " \o source_dir \o " does not exist"))
    /\ exit_code' = <<1>>
    /\ pc' = "exited"
    /\ UNCHANGED <<argv, fs, pass, source_dir, swift_files, idx, total_matches, handle,
                   content, matches, affected, exception, match_info, suggestion>>

\* lines 80, 85-89: the walk may yield the files in any order
Enumerate ==
    /\ pc = "check_dir"
    /\ exists(source_dir)
    /\ \E order \in Orders(rglob(fs)) :
          /\ swift_files' = order
          /\ stdout' = Append(stdout,
                 Line("header", Len(order),
                      "Analyzing " \o ToString(Len(order)) \o " Swift files..."))
    /\ ops_log' = ops_log \o <<Op("exists", 0), Op("rglob", 0)>>
    /\ total_matches' = 0
    /\ idx' = 1
    /\ pass' = "report"
    /\ pc' = "for"
    /\ UNCHANGED <<argv, fs, source_dir, handle, content, matches, affected, exit_code,
                   exception, match_info, suggestion>>

(***************************************************************************)
(* analyze_patterns(swift_files[idx]), called from line 92 and line 113    *)
(***************************************************************************)
\* line 18: open(file_path, 'r') succeeds
Open ==
    /\ pc = "for"
    /\ idx <= Len(swift_files)
    /\ LET f == swift_files[idx]
       IN /\ fs[f].fault # "open"
          /\ fs' = open(fs, f, OPEN_MODE)
          /\ handle' = f
          /\ ops_log' = Append(ops_log, Op("open", f))
    /\ pc' = "read"
    /\ UNCHANGED <<argv, pass, source_dir, swift_files, idx, total_matches, content,
                   matches, affected, stdout, exit_code, exception, match_info,
                   suggestion>>

\* a plausible slip: an unreadable file skipped silently
OpenFails_skips_file ==
    /\ pc = "for"
    /\ idx <= Len(swift_files)
    /\ fs[swift_files[idx]].fault = "open"
    /\ ops_log' = Append(ops_log, Op("open", swift_files[idx]))
    /\ idx' = idx + 1
    /\ UNCHANGED <<argv, fs, pc, pass, source_dir, swift_files, total_matches, handle,
                   content, matches, affected, stdout, exit_code, exception, match_info,
                   suggestion>>

\* line 18: open raises; nothing catches it and the interpreter exits with 1
OpenFails ==
    /\ pc = "for"
    /\ idx <= Len(swift_files)
    /\ LET f == swift_files[idx]
       IN /\ fs[f].fault = "open"
          /\ ops_log' = Append(ops_log, Op("open", f))
    /\ exception' = "OSError"
    /\ exit_code' = <<1>>
    /\ pc' = "exited"
    /\ UNCHANGED <<argv, fs, pass, source_dir, swift_files, idx, total_matches, handle,
                   content, matches, affected, stdout, match_info, suggestion>>

\* line 19: content = f.read()
Read ==
    /\ pc = "read"
    /\ fs[handle].fault # "read"
    /\ content' = fs[handle].content
    /\ ops_log' = Append(ops_log, Op("read", handle))
    /\ pc' = "close"
    /\ UNCHANGED <<argv, fs, pass, source_dir, swift_files, idx, total_matches, handle,
                   matches, affected, stdout, exit_code, exception, match_info,
                   suggestion>>

\* line 19: read raises; the with statement closes the file and the
\* exception leaves main uncaught
ReadFails ==
    /\ pc = "read"
    /\ fs[handle].fault = "read"
    /\ ops_log' = ops_log \o <<Op("read", handle), Op("close", handle)>>
    /\ handle' = 0
    /\ exception' = "UnicodeDecodeError"
    /\ exit_code' = <<1>>
    /\ pc' = "exited"
    /\ UNCHANGED <<argv, fs, pass, source_dir, swift_files, idx, total_matches, content,
                   matches, affected, stdout, match_info, suggestion>>

\* a plausible slip: the file read without a with statement and left open
Close_leaks_handle ==
    /\ pc = "close"
    /\ pc' = "match"
    /\ UNCHANGED <<argv, fs, pass, source_dir, swift_files, idx, total_matches, handle,
                   content, matches, affected, stdout, exit_code, exception, ops_log,
                   match_info, suggestion>>

\* lines 18-19: leaving the with block closes the file
Close ==
    /\ pc = "close"
    /\ ops_log' = Append(ops_log, Op("close", handle))
    /\ handle' = 0
    /\ pc' = "match"
    /\ UNCHANGED <<argv, fs, pass, source_dir, swift_files, idx, total_matches, content,
                   matches, affected, stdout, exit_code, exception, match_info,
                   suggestion>>

\* lines 21-47: match and return the records to the caller
Match ==
    /\ pc = "match"
    /\ matches' = analyze_content(content)
    /\ ops_log' = Append(ops_log, Op("match", swift_files[idx]))
    /\ pc' = IF pass = "report" THEN "report" ELSE "filter"
    /\ UNCHANGED <<argv, fs, pass, source_dir, swift_files, idx, total_matches, handle,
                   content, affected, stdout, exit_code, exception, match_info,
                   suggestion>>

(***************************************************************************)
(* main, continued: the report loop and the summary                        *)
(***************************************************************************)
\* a plausible slip: a block only for files with more than one match
truthy_more_than_one(ms) == Len(ms) > 1

\* line 94: if matches
truthy(ms) == ms # <<>>

\* a plausible slip: = written for +=
add_matches_overwrites(total, ms) == Len(ms)

\* line 109: total_matches += len(matches)
add_matches(total, ms) == total + Len(ms)

\* a plausible slip: the comprehension without its condition
keeps_every_file(ms) == TRUE

\* line 113: the condition of the comprehension, if analyze_patterns(f)
keeps(ms) == ms # <<>>

\* lines 94-109: the file has matches
ReportBlock ==
    /\ pc = "report"
    /\ truthy(matches)
    /\ stdout' = stdout \o BlockHead(fs, swift_files[idx], matches)
                        \o PrintMatches(matches, 1)
    /\ total_matches' = add_matches(total_matches, matches)
    /\ idx' = idx + 1
    /\ pc' = "for"
    /\ UNCHANGED <<argv, fs, pass, source_dir, swift_files, handle, content, matches,
                   affected, exit_code, exception, ops_log, match_info, suggestion>>

\* line 94: the file has no match, nothing is printed
SkipFile ==
    /\ pc = "report"
    /\ ~truthy(matches)
    /\ idx' = idx + 1
    /\ pc' = "for"
    /\ UNCHANGED <<argv, fs, pass, source_dir, swift_files, total_matches, handle,
                   content, matches, affected, stdout, exit_code, exception, ops_log,
                   match_info, suggestion>>

\* lines 111-113: the report loop is over; the summary is begun and the
\* comprehension of line 113 starts over the same list
SummaryHead ==
    /\ pc = "for"
    /\ pass = "report"
    /\ idx > Len(swift_files)
    /\ stdout' = stdout \o
           << Blank,
              Line("summary", 0, "=== SUMMARY ==="),
              Line("total", total_matches,
                   "Total unsafe calls found: " \o ToString(total_matches)) >>
    /\ pass' = "summary"
    /\ idx' = 1
    /\ affected' = <<>>
    /\ UNCHANGED <<argv, fs, pc, source_dir, swift_files, total_matches, handle, content,
                   matches, exit_code, exception, ops_log, match_info, suggestion>>

\* line 113: one file of the comprehension, kept when its list is not empty
Filter ==
    /\ pc = "filter"
    /\ affected' = IF keeps(matches) THEN Append(affected, swift_files[idx])
                   ELSE affected
    /\ idx' = idx + 1
    /\ pc' = "for"
    /\ UNCHANGED <<argv, fs, pass, source_dir, swift_files, total_matches, handle,
                   content, matches, stdout, exit_code, exception, ops_log, match_info,
                   suggestion>>

\* lines 113-119: the comprehension is over; main returns, exit code 0
SummaryTail ==
    /\ pc = "for"
    /\ pass = "summary"
    /\ idx > Len(swift_files)
    /\ stdout' = Append(stdout,
                        Line("affected", Len(affected),
                             "Files affected: " \o ToString(Len(affected))))
                     \o NEXT_STEPS
    /\ exit_code' = <<0>>
    /\ pc' = "exited"
    /\ UNCHANGED <<argv, fs, pass, source_dir, swift_files, idx, total_matches, handle,
                   content, matches, affected, exception, ops_log, match_info,
                   suggestion>>

Next ==
    \/ UsageError
    \/ ArgsOk
    \/ DirectoryNotFound
    \/ Enumerate
    \/ Open
    \/ OpenFails
    \/ Read
    \/ ReadFails
    \/ Close
    \/ Match
    \/ ReportBlock
    \/ SkipFile
    \/ SummaryHead
    \/ Filter
    \/ SummaryTail

Spec == Init /\ [][Next]_vars

\* the script is one sequential process: a step that can be taken is taken
FairSpec == Spec /\ WF_vars(Next)

(***************************************************************************)
(* Direct calls of the two pure functions on bounded inputs                *)
(***************************************************************************)
MaxCalls == 2

PROBE_TARGETS == {<<"element">>, <<SP, "f", LP, "a", RP, NL>>}
PROBE_SECOND_ARGS ==
    { <<QT, "AXTitle", QT, SP, AS, SP, CFS>>,
      <<QT, "AXFrame", QT, AS, NL, CFS>>,
      <<"attrName", SP, AS, SP, CFS>>,
      <<"kAXTitleAttribute">>,
      <<QT, "AXTitle", QT>>,
      <<QT, QT, SP, AS, SP, CFS>> }
PROBE_THIRD_ARGS == {<<AMP, "ref">>, <<"ref">>}

ProbeCalls ==
    { <<KW, LP>> \o t \o <<CM, SP>> \o a \o <<CM, SP>> \o v \o <<RP>> :
        t \in PROBE_TARGETS, a \in PROBE_SECOND_ARGS, v \in PROBE_THIRD_ARGS }

\* the texts made of at most n calls, one per line
RECURSIVE ProbeTexts(_)
ProbeTexts(n) ==
    IF n = 0 THEN {<<>>}
    ELSE LET shorter == ProbeTexts(n - 1)
         IN shorter \cup {t \o <<NL>> \o c : t \in shorter, c \in ProbeCalls}

PROBE_ATTRS ==
    ARRAY_ATTRS \cup STRING_ATTRS \cup BOOL_ATTRS \cup RECT_ATTRS \cup POINT_ATTRS
        \cup SIZE_ATTRS \cup {"AXCustomFoo", "AXTitleBar", "axtitle", "AXChildren "}
PROBE_ELEMENTS == {"element", "button", "f(a"}
PROBE_RECORDS == {[element |-> e, attribute |-> a] : e \in PROBE_ELEMENTS, a \in PROBE_ATTRS}

InitFn ==
    /\ \/ /\ pc = "probe_text"
          /\ content \in ProbeTexts(MaxCalls)
          /\ match_info = NoRecord
       \/ /\ pc = "probe_record"
          /\ content = <<>>
          /\ match_info \in PROBE_RECORDS
    /\ argv = <<"replace_unsafe_calls.py">>
    /\ fs = [f \in FileIds |-> Absent]
    /\ pass = "report"
    /\ source_dir = ""
    /\ swift_files = <<>>
    /\ idx = 1
    /\ total_matches = 0
    /\ handle = 0
    /\ matches = <<>>
    /\ affected = <<>>
    /\ stdout = <<>>
    /\ exit_code = <<>>
    /\ exception = ""
    /\ ops_log = <<>>
    /\ suggestion = ""

\* analyze_patterns, lines 21-47, on a given text
ProbeAnalyze ==
    /\ pc = "probe_text"
    /\ matches' = analyze_content(content)
    /\ pc' = "analyzed"
    /\ UNCHANGED <<argv, fs, pass, source_dir, swift_files, idx, total_matches, handle,
                   content, affected, stdout, exit_code, exception, ops_log, match_info,
                   suggestion>>

\* suggest_replacement on a given record
ProbeSuggest ==
    /\ pc = "probe_record"
    /\ suggestion' = suggest_replacement(match_info)
    /\ pc' = "suggested"
    /\ UNCHANGED <<argv, fs, pass, source_dir, swift_files, idx, total_matches, handle,
                   content, matches, affected, stdout, exit_code, exception, ops_log,
                   match_info>>

NextFn ==
    \/ ProbeAnalyze
    \/ ProbeSuggest

SpecFn == InitFn /\ [][NextFn]_vars

(***************************************************************************)
(* Properties                                                              *)
(***************************************************************************)
Exited == pc = "exited"
Completed == pc = "exited" /\ exit_code = <<0>>

Kinds(lines) == [i \in 1..Len(lines) |-> lines[i].kind]
HasKind(lines, k) == \E i \in 1..Len(lines) : lines[i].kind = k

RECURSIVE SumFound(_)
SumFound(lines) ==
    IF lines = <<>> THEN 0
    ELSE (IF Head(lines).kind = "found" THEN Head(lines).n ELSE 0) + SumFound(Tail(lines))

\* the wrapper function the claim assigns to an attribute name
CategoryWrapper(a) ==
    CASE a \in {"AXChildren", "AXWindows", "AXMenus", "AXTabs"} -> "getArrayAttribute"
      [] a \in STRING_ATTRS -> "getStringAttribute"
      [] a \in BOOL_ATTRS -> "getBoolAttribute"
      [] a = "AXFrame" -> "getRectAttribute"
      [] a = "AXPosition" -> "getPointAttribute"
      [] a = "AXSize" -> "getSizeAttribute"
      [] OTHER -> "getAttribute"

\* C1: suggest_replacement returns, for every attribute name, the call of
\* the wrapper of the attribute's category (the generic wrapper when the
\* name is in none of the six lists), with the record's element and
\* attribute embedded unchanged.
C1_SuggestByCategory ==
    pc = "suggested" =>
        suggestion = "SafeAttributeAccess." \o CategoryWrapper(match_info.attribute)
                        \o "(" \o match_info.element \o ", attribute: \""
                        \o match_info.attribute \o "\")"

C1_Witness ==
    /\ pc = "suggested"
    /\ match_info = [element |-> "f(a", attribute |-> "AXCustomFoo"]
    /\ suggestion = "SafeAttributeAccess.getAttribute(f(a, attribute: \"AXCustomFoo\")"

\* C2: the number on the 'Total unsafe calls found' line is the sum of the
\* numbers on the 'Found N unsafe calls' lines printed before it.
C2_TotalIsSumOfFound ==
    \A i \in 1..Len(stdout) :
        stdout[i].kind = "total" =>
            /\ stdout[i].n = SumFound(SubSeq(stdout, 1, i - 1))
            /\ stdout[i].text = "Total unsafe calls found: " \o ToString(stdout[i].n)

C2_Witness ==
    /\ Completed
    /\ Cardinality({i \in 1..Len(stdout) : stdout[i].kind = "found"}) = 2
    /\ \E i \in 1..Len(stdout) : stdout[i].kind = "total" /\ stdout[i].n = 3

\* the files whose block, among the given lines, holds at least one match entry
FilesWithMatchLines(lines) ==
    { lines[j].n : j \in { j \in 1..Len(lines) :
          /\ lines[j].kind = "file"
          /\ \E k \in (j + 1)..Len(lines) :
                /\ lines[k].kind = "index"
                /\ \A l \in (j + 1)..(k - 1) : lines[l].kind # "file" } }

\* C3: the number on the 'Files affected' line is the number of distinct
\* files for which a block with at least one match entry was printed before.
C3_AffectedIsFilesWithBlocks ==
    \A i \in 1..Len(stdout) :
        stdout[i].kind = "affected" =>
            stdout[i].n = Cardinality(FilesWithMatchLines(SubSeq(stdout, 1, i - 1)))

C3_Witness ==
    /\ Completed
    /\ Len(swift_files) = 2
    /\ \E i \in 1..Len(stdout) : stdout[i].kind = "affected" /\ stdout[i].n = 1

\* C4: with a wrong argument count, or with one argument naming a path that
\* does not exist, the run prints exactly one line (the usage line, or the
\* error line naming the path), exits with code 1 and neither enumerates
\* nor opens any file; the argument count is checked first, before the
\* path is looked at.
C4_EarlyExit ==
    /\ Len(argv) # 2 =>
          /\ pc \in {"main", "exited"}
          /\ ops_log = <<>>
          /\ Exited => stdout = <<Line("usage", 0, USAGE)>> /\ exit_code = <<1>>
          /\ ~Exited => stdout = <<>>
    /\ (Len(argv) = 2 /\ ~exists(argv[2])) =>
          /\ pc \in {"main", "check_dir", "exited"}
          /\ \A i \in 1..Len(ops_log) : ops_log[i].op = "exists"
          /\ Exited =>
                /\ stdout = <<Line("error", 0,
                                   "Directory " \o argv[2] \o " does not exist")>>
                /\ exit_code = <<1>>
          /\ ~Exited => stdout = <<>>

C4_Witness ==
    /\ Exited
    /\ argv = <<"replace_unsafe_calls.py", "Missing">>
    /\ stdout = <<Line("error", 0, "Directory Missing does not exist")>>
    /\ exit_code = <<1>>

Readable(f) == fs[f].fault = "none"
OneArgAndPathExists == Len(argv) = 2 /\ exists(argv[2])

HeaderThenSummary ==
    /\ Len(stdout) >= 1
    /\ stdout[1].kind = "header"
    /\ stdout[1].n = Cardinality(rglob(fs))
    /\ \E i \in 2..Len(stdout) :
          /\ stdout[i].kind = "summary"
          /\ stdout[i + 1].kind = "total"
          /\ stdout[i + 2].kind = "affected"
          /\ rglob(fs) = {} => stdout[i + 1].n = 0 /\ stdout[i + 2].n = 0

\* C5 as stated: a run with one argument and an existing path ends with
\* exit code 0, the header and the summary printed.
C5_AlwaysExitsZero ==
    (Exited /\ OneArgAndPathExists) => (exit_code = <<0>> /\ HeaderThenSummary)

\* C5, amended: a run with one argument and an existing path always
\* terminates, having printed the header naming the file count; when every
\* enumerated file can be opened and read it ends with exit code 0 after the
\* summary (all counts 0 when no file was enumerated); when some enumerated
\* file cannot be opened or read, the uncaught exception ends it with exit
\* code 1 and no summary is printed.
C5_ExitsZeroIffAllReadable ==
    /\ OneArgAndPathExists ~> Exited
    /\ [](Exited /\ OneArgAndPathExists =>
            /\ Len(stdout) >= 1
            /\ stdout[1] = Line("header", Cardinality(rglob(fs)),
                   "Analyzing " \o ToString(Cardinality(rglob(fs))) \o " Swift files...")
            /\ (\A f \in rglob(fs) : Readable(f)) =>
                   exit_code = <<0>> /\ exception = "" /\ HeaderThenSummary
            /\ (\E f \in rglob(fs) : ~Readable(f)) =>
                   exit_code = <<1>> /\ exception # "" /\ ~HasKind(stdout, "summary"))

C5_Witness ==
    /\ Completed
    /\ rglob(fs) = {}
    /\ \E f \in FileIds : fs[f].kind = "file"
    /\ Kinds(stdout) = <<"header", "blank", "summary", "total", "affected",
                         "blank", "steps", "steps", "steps", "steps", "steps">>

\* the number of files the report loop has finished with
Reported == IF pass = "summary" THEN Len(swift_files) ELSE idx - 1

AnalysisOf(f) == analyze_content(fs[f].content)

\* the entries 1..n of a block: seven lines each, the attribute and the
\* matched text of the i-th match on the attribute and current lines
RECURSIVE C6_Entries(_, _)
C6_Entries(ms, i) ==
    IF i > Len(ms) THEN <<>>
    ELSE << Line("blank", 0, ""),
            Line("index", i, ""),
            Line("attribute", i, "   Attribute: " \o ms[i].attribute),
            Line("element", i, ""),
            Line("current", i, "   Current: " \o ms[i].full_match),
            Line("suggested", i, ""),
            Line("context", i, "") >> \o C6_Entries(ms, i + 1)

\* nothing for a file without match; else the subheader announcing N and N entries
C6_Block(f) ==
    Only({ IF Len(ms) = 0 THEN <<>>
           ELSE << Line("blank", 0, ""), Line("file", f, ""), Line("found", Len(ms), "") >>
                    \o C6_Entries(ms, 1) :
             ms \in {AnalysisOf(f)} })

RECURSIVE C6_Body(_)
C6_Body(k) == IF k = 0 THEN <<>> ELSE C6_Body(k - 1) \o C6_Block(swift_files[k])

C6_View(line) ==
    IF line.kind \in {"attribute", "current"} THEN line ELSE Line(line.kind, line.n, "")

\* C6: what is printed between the header and the summary is, for the files
\* handled so far in enumeration order, nothing for a file without match
\* and, for a file with N >= 1 matches, one subheader announcing N followed
\* by exactly N entries numbered 1..N in match order.
C6_BlockIffMatches ==
    (stdout # <<>> /\ stdout[1].kind = "header") =>
        \A body \in {C6_Body(Reported)} :
            /\ Len(stdout) >= 1 + Len(body)
            /\ [i \in 1..Len(body) |-> C6_View(stdout[i + 1])] = body
            /\ Len(stdout) > 1 + Len(body) =>
                  /\ pass = "summary"
                  /\ stdout[Len(body) + 2].kind = "blank"
                  /\ stdout[Len(body) + 3].kind = "summary"

C6_Witness ==
    /\ Completed
    /\ Len(swift_files) = 2
    /\ fs[swift_files[1]].content = TEXT_VARIABLE
    /\ fs[swift_files[2]].content = TEXT_TWO
    /\ Len(stdout) = 28
    /\ stdout[3].kind = "file" /\ stdout[3].n = swift_files[2]
    /\ stdout[4].kind = "found" /\ stdout[4].n = 2

IsPrefix(s, t) == Len(s) <= Len(t) /\ SubSeq(t, 1, Len(s)) = s

RECURSIVE FileOps(_)
FileOps(log) ==
    IF log = <<>> THEN <<>>
    ELSE (IF Head(log).op \in {"open", "read", "close", "match"} THEN <<Head(log)>>
          ELSE <<>>) \o FileOps(Tail(log))

\* one pass over the first k enumerated files: open, read, close, match of
\* each file before anything of the next
RECURSIVE OnePass(_)
OnePass(k) ==
    IF k = 0 THEN <<>>
    ELSE OnePass(k - 1) \o << Op("open", swift_files[k]), Op("read", swift_files[k]),
                              Op("close", swift_files[k]), Op("match", swift_files[k]) >>

CountOps(op, f) == Cardinality({i \in 1..Len(ops_log) : ops_log[i] = Op(op, f)})

\* C7 as stated: no file is opened, read, matched or closed a second time.
C7_EachFileOnce ==
    \A f \in FileIds : \A op \in {"open", "read", "close", "match"} : CountOps(op, f) <= 1

\* C7, amended: each enumerated file is opened, fully read, closed and
\* matched before the next file is considered, exactly once in the report
\* loop and exactly once more in the summary's count of affected files; a
\* completed run has done so exactly twice for every enumerated file, and
\* nothing is attempted again after a failure.
C7_EachFileOncePerPass ==
    /\ IsPrefix(FileOps(ops_log), OnePass(Len(swift_files)) \o OnePass(Len(swift_files)))
    /\ pass = "report" => Len(FileOps(ops_log)) <= 4 * Len(swift_files)
    /\ pass = "summary" => Len(FileOps(ops_log)) >= 4 * Len(swift_files)
    /\ Completed => Len(FileOps(ops_log)) = 8 * Len(swift_files)
    /\ pc = "for" => handle = 0
    /\ \A f \in FileIds : \A op \in {"open", "read", "close", "match"} :
          CountOps(op, f) <= (IF pass = "report" THEN 1 ELSE 2)

C7_Witness ==
    /\ Completed
    /\ Len(swift_files) = 2
    /\ \A f \in rglob(fs) : CountOps("open", f) = 2 /\ CountOps("match", f) = 2

\* C8: no step of a run changes the content of a file or the set of files
\* under the root; a step only appends lines to standard output.
C8_FilesUntouched == [][fs' = fs /\ IsPrefix(stdout, stdout')]_vars

C8_Witness ==
    /\ Completed
    /\ Len(swift_files) = 2
    /\ \A f \in rglob(fs) : fs[f].content = TEXT_TWO /\ CountOps("read", f) = 2

RECURSIVE SkipWs(_, _)
SkipWs(text, i) == IF i <= Len(text) /\ text[i] \in WS THEN SkipWs(text, i + 1) ELSE i

Tok(text, i) == IF i \in 1..Len(text) THEN text[i] ELSE ""

\* the call starting at offset start and ending at offset end has, right
\* after its first comma, a double-quoted non-empty literal followed by as CFString
QuotedSecondArg(text, start, end) ==
    \E c \in (start + 1)..end :
        /\ text[c] = CM
        /\ \A j \in (start + 1)..(c - 1) : text[j] # CM
        /\ Tok(text, SkipWs(text, c + 1)) = QT
        /\ \E q \in (SkipWs(text, c + 1) + 2)..end :
              /\ text[q] = QT
              /\ \A j \in (SkipWs(text, c + 1) + 1)..(q - 1) : text[j] # QT
              /\ Tok(text, SkipWs(text, q + 1)) = AS
              /\ Tok(text, SkipWs(text, SkipWs(text, q + 1) + 1)) = CFS
              /\ SkipWs(text, SkipWs(text, q + 1) + 1) <= end

\* C9: every record analyze_patterns returns is for a call whose second
\* argument is a double-quoted literal followed by as CFString; a call with
\* anything else in that position (a variable name) yields no record.
C9_OnlyQuotedLiterals ==
    pc = "analyzed" =>
        /\ \A i \in 1..Len(matches) :
              /\ content[matches[i].start + 1] = KW
              /\ QuotedSecondArg(content, matches[i].start, matches[i].end)
              /\ matches[i].full_match
                     = Join(SubSeq(content, matches[i].start + 1, matches[i].end))
        /\ \A p \in 1..Len(content) :
              (content[p] = KW /\ ~QuotedSecondArg(content, p - 1, Len(content))) =>
                  \A i \in 1..Len(matches) : matches[i].start # p - 1

C9_VariableCall ==
    <<KW, LP, "element", CM, SP, "attrName", SP, AS, SP, CFS, CM, SP, AMP, "ref", RP>>
C9_LiteralCall ==
    <<KW, LP, "element", CM, SP, QT, "AXTitle", QT, SP, AS, SP, CFS, CM, SP, AMP, "ref", RP>>

C9_Witness ==
    /\ pc = "analyzed"
    /\ content = <<NL>> \o C9_VariableCall \o <<NL>> \o C9_LiteralCall
    /\ Len(matches) = 1
    /\ matches[1].start = 17

\* the documented cases: target, attribute and variable as written, and the
\* element, variable reference and suggestion expected for them
C10_CASES ==
    { [target |-> <<"element">>, attr |-> "AXTitle", var |-> <<"titleRef">>,
       element |-> "element", var_ref |-> "titleRef",
       suggested |-> "SafeAttributeAccess.getStringAttribute(element, attribute: \"AXTitle\")"],
      [target |-> <<"button">>, attr |-> "AXFrame", var |-> <<"frameRef">>,
       element |-> "button", var_ref |-> "frameRef",
       suggested |-> "SafeAttributeAccess.getRectAttribute(button, attribute: \"AXFrame\")"],
      [target |-> <<SP, "window", SP>>, attr |-> "AXCustomFoo", var |-> <<SP, "ref", NL>>,
       element |-> "window", var_ref |-> "ref",
       suggested |-> "SafeAttributeAccess.getAttribute(window, attribute: \"AXCustomFoo\")"] }

C10_LastBlock == SubSeq(stdout, Len(stdout) - 9, Len(stdout))

\* C10: for a file that is exactly one call of the three-argument shape,
\* analyze_patterns returns exactly one record, with the trimmed target as
\* element, the literal as attribute and the trimmed variable as var_ref,
\* and the block printed for the file shows them with the classifier's
\* suggestion for that element and attribute.
C10_SingleCall ==
    \A c \in C10_CASES :
        /\ (pc \in {"report", "filter"} /\ content = CallText(c.target, <<c.attr>>, c.var)) =>
              /\ Len(matches) = 1
              /\ matches[1].element = c.element
              /\ matches[1].attribute = c.attr
              /\ matches[1].var_ref = c.var_ref
              /\ matches[1].full_match = Join(content)
        /\ (/\ pc = "for" /\ pass = "report" /\ idx > 1
            /\ fs[swift_files[idx - 1]].content = CallText(c.target, <<c.attr>>, c.var)) =>
              /\ Len(stdout) >= 11
              /\ Kinds(C10_LastBlock) = <<"blank", "file", "found", "blank", "index",
                     "attribute", "element", "current", "suggested", "context">>
              /\ C10_LastBlock[2].n = swift_files[idx - 1]
              /\ C10_LastBlock[3].n = 1
              /\ C10_LastBlock[5].n = 1
              /\ C10_LastBlock[6].text = "   Attribute: " \o c.attr
              /\ C10_LastBlock[7].text = "   Element: " \o c.element
              /\ C10_LastBlock[9].text = "   Suggested: " \o c.suggested

C10_Witness ==
    /\ pc = "for" /\ pass = "report" /\ idx = 2
    /\ fs[swift_files[1]].content = TEXT_FRAME
    /\ stdout[Len(stdout) - 1].text
           = "   Suggested: SafeAttributeAccess.getRectAttribute(button, attribute: \"AXFrame\")"

====
